---- MODULE Spec2Model ----
\* A model of the spliter crate: Spliterator sequences (the test's AllNumbers,
\* the benchmark's Collatz and CollatzBuf, the example's DepthFirstSearch) and
\* ParSpliter::bridge running over a fork-join scheduler (rayon::join_context).
EXTENDS Integers, Sequences, FiniteSets, Bags, TLC

\* ------------------------------------------------------------------------
\* Bounds
\* ------------------------------------------------------------------------

\* AllNumbers pushes 2n and 2n+1 while n < 2^Depth (the test uses 1 << 15).
Depth == 2

\* Width in bits of the integers of Collatz / CollatzBuf (u32 in the benchmark):
\* checked_mul(2) fails from 2^Bits on.
Bits == 5

\* Depth limit of DepthFirstSearch in the sequence specification
\* (PocketCube::GODS_NUMBER, 11, in the example).
DepthLimit == 2

\* At most this many forked tasks are reported as migrated in an execution in
\* which the scheduler does not report all of them as migrated.
MaxSteals == 2

\* ------------------------------------------------------------------------
\* Helpers
\* ------------------------------------------------------------------------

Pow2(n) == 2 ^ n

Front(s) == SubSeq(s, 1, Len(s) - 1)

Last(s) == s[Len(s)]

\* Vec::split_off(at): the receiver keeps [0, at), the result is [at, len).
SplitOffKeep(stack, at) == SubSeq(stack, 1, at)

SplitOffTail(stack, at) == SubSeq(stack, at + 1, Len(stack))

\* An Option is a sequence of length 0 (None) or 1 (Some(x)).
None == << >>

Some(x) == << x >>

IsSome(o) == Len(o) = 1

\* ------------------------------------------------------------------------
\* PocketCube (examples/util/cube.rs)
\* ------------------------------------------------------------------------

solved ==
    << "W", "W", "W", "W",
       "O", "O", "G", "G", "R", "R",
       "O", "O", "G", "G", "R", "R",
       "Y", "Y", "Y", "Y",
       "B", "B", "B", "B" >>

impossible ==
    << "W", "W", "O", "W",
       "O", "G", "W", "G", "R", "R",
       "O", "O", "G", "G", "R", "R",
       "Y", "Y", "Y", "Y",
       "B", "B", "B", "B" >>

\* The permutation of a clockwise quarter turn (0-based indices, as in the source).
Perm(face) ==
    CASE face = "Up" ->
           << 2, 0, 3, 1, 6, 7, 8, 9, 23, 22, 10, 11, 12, 13, 14, 15,
              16, 17, 18, 19, 20, 21, 5, 4 >>
      [] face = "Down" ->
           << 0, 1, 2, 3, 4, 5, 6, 7, 8, 9, 21, 20, 10, 11, 12, 13,
              18, 16, 19, 17, 15, 14, 22, 23 >>
      [] face = "Left" ->
           << 20, 1, 22, 3, 10, 4, 0, 7, 8, 9, 11, 5, 2, 13, 14, 15,
              6, 17, 12, 19, 16, 21, 18, 23 >>
      [] face = "Right" ->
           << 0, 7, 2, 13, 4, 5, 6, 17, 14, 8, 10, 11, 12, 19, 15, 9,
              16, 21, 18, 23, 20, 1, 22, 3 >>
      [] face = "Front" ->
           << 0, 1, 11, 5, 4, 16, 12, 6, 2, 9, 10, 17, 13, 7, 3, 15,
              14, 8, 18, 19, 20, 21, 22, 23 >>
      [] face = "Back" ->
           << 9, 15, 2, 3, 1, 5, 6, 7, 8, 19, 0, 11, 12, 13, 14, 18,
              16, 17, 4, 10, 22, 20, 23, 21 >>

quarter_turn(faces, face) == [i \in 1..24 |-> faces[Perm(face)[i] + 1]]

\* A turn is a record [dir, face].
turn(faces, t) ==
    CASE t.dir = "Clockwise" -> quarter_turn(faces, t.face)
      [] t.dir = "Halfway" -> quarter_turn(quarter_turn(faces, t.face), t.face)
      [] t.dir = "CounterClockwise" ->
           quarter_turn(quarter_turn(quarter_turn(faces, t.face), t.face), t.face)

\* ------------------------------------------------------------------------
\* Node (examples/util/dfs.rs)
\* ------------------------------------------------------------------------

\* Node::from(cube)
NodeFrom(cube) == [cube |-> cube, depth |-> 0, last_face |-> "None"]

\* Node::turn
NodeTurn(node, t) ==
    [cube |-> turn(node.cube, t), depth |-> node.depth + 1, last_face |-> t.face]

SearchFaces == << "Up", "Right", "Back" >>

TurnDirs == << "Clockwise", "Halfway", "CounterClockwise" >>

RECURSIVE FilterFaces(_, _)
FilterFaces(faces, last) ==
    IF faces = << >> THEN << >>
    ELSE (IF Head(faces) /= last THEN << Head(faces) >> ELSE << >>)
         \o FilterFaces(Tail(faces), last)

\* Node::children, in the order the iterator yields them.
children(node, limit) ==
    IF node.depth < limit
    THEN LET fs == FilterFaces(SearchFaces, node.last_face)
         IN  [i \in 1..(3 * Len(fs)) |->
                NodeTurn(node, [dir |-> TurnDirs[((i - 1) % 3) + 1],
                                face |-> fs[((i - 1) \div 3) + 1]])]
    ELSE << >>

\* ------------------------------------------------------------------------
\* The Spliterator implementations.  A sequence is [kind, stack, next, limit];
\* next is CollatzBuf's buffered item (None for the other kinds), limit is the
\* bound of the search space (the exponent, the width or the depth limit).
\* ------------------------------------------------------------------------

AllNumbersNew(k) == [kind |-> "AllNumbers", stack |-> << 1 >>, next |-> None, limit |-> k]

CollatzNew(n, w) == [kind |-> "Collatz", stack |-> << n >>, next |-> None, limit |-> w]

CollatzBufNew(n, w) == [kind |-> "CollatzBuf", stack |-> << n >>, next |-> None, limit |-> w]

DepthFirstSearchNew(cube, d) ==
    [kind |-> "DepthFirstSearch", stack |-> << NodeFrom(cube) >>, next |-> None, limit |-> d]

\* AllNumbers::next with the bound tested as n <= 2^k.
AllNumbersNextInclusive(s) ==
    IF s.stack /= << >>
    THEN LET n == Last(s.stack)
             popped == Front(s.stack)
         IN  [item |-> Some(n),
              s |-> [s EXCEPT !.stack =
                        IF n <= Pow2(s.limit)
                        THEN popped \o << 2 * n, 2 * n + 1 >>
                        ELSE popped]]
    ELSE [item |-> None, s |-> s]

\* AllNumbers::next
AllNumbersNext(s) ==
    IF s.stack /= << >>
    THEN LET n == Last(s.stack)
             popped == Front(s.stack)
         IN  [item |-> Some(n),
              s |-> [s EXCEPT !.stack =
                        IF n < Pow2(s.limit)
                        THEN popped \o << 2 * n, 2 * n + 1 >>
                        ELSE popped]]
    ELSE [item |-> None, s |-> s]

\* AllNumbers::split with the half taken one entry too high.
AllNumbersSplitDrop(s) ==
    LET len == Len(s.stack)
    IN  IF len >= 2
        THEN [new |-> Some([s EXCEPT !.stack = SplitOffTail(s.stack, len \div 2 + 1)]),
              s |-> [s EXCEPT !.stack = SplitOffKeep(s.stack, len \div 2)]]
        ELSE [new |-> None, s |-> s]

\* AllNumbers::split with the half copied, not split off.
AllNumbersSplitKeepAll(s) ==
    LET len == Len(s.stack)
    IN  IF len >= 2
        THEN [new |-> Some([s EXCEPT !.stack = SplitOffTail(s.stack, len \div 2)]),
              s |-> s]
        ELSE [new |-> None, s |-> s]

\* AllNumbers::split
AllNumbersSplit(s) ==
    LET len == Len(s.stack)
    IN  IF len >= 2
        THEN [new |-> Some([s EXCEPT !.stack = SplitOffTail(s.stack, len \div 2)]),
              s |-> [s EXCEPT !.stack = SplitOffKeep(s.stack, len \div 2)]]
        ELSE [new |-> None, s |-> s]

\* The pushes of Collatz::next / CollatzBuf::buffer for a popped n.
CollatzPush(popped, n, w) ==
    LET even == IF 2 * n < Pow2(w) THEN popped \o << 2 * n >> ELSE popped
    IN  IF n > 4 /\ n % 6 = 4 THEN even \o << (n - 1) \div 3 >> ELSE even

\* Collatz::next
CollatzNext(s) ==
    IF s.stack = << >>
    THEN [item |-> None, s |-> s]
    ELSE LET n == Last(s.stack)
         IN  [item |-> Some(n),
              s |-> [s EXCEPT !.stack = CollatzPush(Front(s.stack), n, s.limit)]]

\* Collatz::split
CollatzSplit(s) ==
    LET len == Len(s.stack)
    IN  IF len >= 2
        THEN [new |-> Some([s EXCEPT !.stack = SplitOffTail(s.stack, len \div 2)]),
              s |-> [s EXCEPT !.stack = SplitOffKeep(s.stack, len \div 2)]]
        ELSE [new |-> None, s |-> s]

\* CollatzBuf::buffer
buffer(s) ==
    IF s.next /= None THEN s
    ELSE IF s.stack /= << >>
         THEN LET n == Last(s.stack)
              IN  [s EXCEPT !.stack = CollatzPush(Front(s.stack), n, s.limit),
                            !.next = Some(n)]
         ELSE s

\* CollatzBuf::next
CollatzBufNext(s) ==
    LET b == buffer(s)
    IN  [item |-> b.next, s |-> [b EXCEPT !.next = None]]

\* CollatzBuf::split with the buffered item copied into the new half.
CollatzBufSplitCopyNext(s) ==
    LET b == buffer(s)
        len == Len(b.stack)
    IN  IF len + (IF IsSome(b.next) THEN 1 ELSE 0) >= 2
        THEN [new |-> Some([b EXCEPT !.stack = SplitOffTail(b.stack, len \div 2)]),
              s |-> [b EXCEPT !.stack = SplitOffKeep(b.stack, len \div 2)]]
        ELSE [new |-> None, s |-> b]

\* CollatzBuf::split partitioning from one pending unit on.
CollatzBufSplitEager(s) ==
    LET b == buffer(s)
        len == Len(b.stack)
    IN  IF len + (IF IsSome(b.next) THEN 1 ELSE 0) >= 1
        THEN [new |-> Some([b EXCEPT !.stack = SplitOffTail(b.stack, len \div 2),
                                     !.next = None]),
              s |-> [b EXCEPT !.stack = SplitOffKeep(b.stack, len \div 2)]]
        ELSE [new |-> None, s |-> b]

\* CollatzBuf::split
CollatzBufSplit(s) ==
    LET b == buffer(s)
        len == Len(b.stack)
    IN  IF len + (IF IsSome(b.next) THEN 1 ELSE 0) >= 2
        THEN [new |-> Some([b EXCEPT !.stack = SplitOffTail(b.stack, len \div 2),
                                     !.next = None]),
              s |-> [b EXCEPT !.stack = SplitOffKeep(b.stack, len \div 2)]]
        ELSE [new |-> None, s |-> b]

\* DepthFirstSearch::next
DepthFirstSearchNext(s) ==
    IF s.stack /= << >>
    THEN LET node == Last(s.stack)
         IN  [item |-> Some(node.cube),
              s |-> [s EXCEPT !.stack = Front(s.stack) \o children(node, s.limit)]]
    ELSE [item |-> None, s |-> s]

\* DepthFirstSearch::try_split keeping one node less than the end.
try_splitOffByOne(s) ==
    LET len == Len(s.stack)
    IN  IF len >= 2
        THEN [new |-> Some([s EXCEPT !.stack = SplitOffKeep(s.stack, len \div 2)]),
              s |-> [s EXCEPT !.stack = SplitOffTail(s.stack, len \div 2 + 1)]]
        ELSE [new |-> None, s |-> s]

\* DepthFirstSearch::try_split giving away the end and keeping the beginning.
try_splitKeepBottom(s) ==
    LET len == Len(s.stack)
    IN  IF len >= 2
        THEN [new |-> Some([s EXCEPT !.stack = SplitOffTail(s.stack, len \div 2)]),
              s |-> [s EXCEPT !.stack = SplitOffKeep(s.stack, len \div 2)]]
        ELSE [new |-> None, s |-> s]

\* DepthFirstSearch::try_split: give away the beginning, keep the end.
try_split(s) ==
    LET len == Len(s.stack)
    IN  IF len >= 2
        THEN [new |-> Some([s EXCEPT !.stack = SplitOffKeep(s.stack, len \div 2)]),
              s |-> [s EXCEPT !.stack = SplitOffTail(s.stack, len \div 2)]]
        ELSE [new |-> None, s |-> s]

\* Iterator::next, dispatched on the implementation.
IterNext(s) ==
    CASE s.kind = "AllNumbers" -> AllNumbersNext(s)
      [] s.kind = "Collatz" -> CollatzNext(s)
      [] s.kind = "CollatzBuf" -> CollatzBufNext(s)
      [] s.kind = "DepthFirstSearch" -> DepthFirstSearchNext(s)

\* Spliterator::split, dispatched on the implementation.
IterSplit(s) ==
    CASE s.kind = "AllNumbers" -> AllNumbersSplit(s)
      [] s.kind = "Collatz" -> CollatzSplit(s)
      [] s.kind = "CollatzBuf" -> CollatzBufSplit(s)
      [] s.kind = "DepthFirstSearch" -> try_split(s)

\* One iteration of `while let Some(x) = it.next() { out.push(x) }` on
\* [s, out, done]; done is set when next() returns None.
DrainStep(st) ==
    LET r == IterNext(st.s)
    IN  IF IsSome(r.item)
        THEN [s |-> r.s, out |-> Append(st.out, r.item[1]), done |-> FALSE]
        ELSE [s |-> r.s, out |-> st.out, done |-> TRUE]

\* Up to 2^k iterations, stopping at None (evaluated by doubling, which keeps
\* the evaluation shallow on long sequences).
RECURSIVE DrainRun(_, _)
DrainRun(st, k) ==
    IF st.done THEN st
    ELSE IF k = 0 THEN DrainStep(st)
    ELSE DrainRun(DrainRun(st, k - 1), k - 1)

RECURSIVE DrainFrom(_, _)
DrainFrom(st, k) == IF st.done THEN st ELSE DrainFrom(DrainRun(st, k), k + 1)

\* Sequential consumption: the items next() yields until it returns None.
Drain(s) == DrainFrom([s |-> s, out |-> << >>, done |-> FALSE], 0).out

\* The number of pending units of work of a sequence.
Pending(s) == Len(s.stack) + Len(s.next)

\* The sequence as split() tests it: CollatzBuf::split calls buffer() first,
\* the other implementations test the stack as it is.
Buffered(s) == IF s.kind = "CollatzBuf" THEN buffer(s) ELSE s

\* ------------------------------------------------------------------------
\* The combination protocol (rayon's Folder / Reducer), as bridge uses it.
\* A folder keeps the count, the sum and the list of the items it consumed and
\* the item of a predicate search (find_any, behind all / any); the searches'
\* folders share one flag, found, and report full once it is set.
\* ------------------------------------------------------------------------

\* consumer.split_off_left().into_folder()
NewFolder == [count |-> 0, sum |-> 0, list |-> << >>, hit |-> None]

\* folder.consume(item); bad is the set of items the search looks for.
FolderConsume(folder, item, bad) ==
    [count |-> folder.count + 1,
     sum |-> folder.sum + item,
     list |-> Append(folder.list, item),
     hit |-> IF item \in bad THEN Some(item) ELSE folder.hit]

\* folder.full(), given the shared flag
FolderFull(flag) == flag

\* The shared flag after folder.consume(item).
FoundAfter(flag, item, bad) == flag \/ item \in bad

\* A reducer that keeps the right search result only.
ReduceRightHit(left, right) ==
    [count |-> left.count + right.count,
     sum |-> left.sum + right.sum,
     list |-> left.list \o right.list,
     hit |-> right.hit]

\* reducer.reduce(left, right)
Reduce(left, right) ==
    [count |-> left.count + right.count,
     sum |-> left.sum + right.sum,
     list |-> left.list \o right.list,
     hit |-> IF IsSome(left.hit) THEN left.hit ELSE right.hit]

\* ------------------------------------------------------------------------
\* ParSpliter (src/lib.rs)
\* ------------------------------------------------------------------------

\* ParSpliter::new, with current_num_threads() = w
ParSpliterNew(iter, w) == [iter |-> iter, splits |-> w]

\* ParSpliter::split with the budget of the new half not halved.
ParSpliterSplitNoHalve(o) ==
    IF o.splits = 0
    THEN [new |-> None, s |-> o]
    ELSE LET r == IterSplit(o.iter)
         IN  IF IsSome(r.new)
             THEN [new |-> Some([iter |-> r.new[1], splits |-> o.splits]),
                   s |-> [iter |-> r.s, splits |-> o.splits \div 2]]
             ELSE [new |-> None, s |-> [o EXCEPT !.iter = r.s]]

\* ParSpliter::split with the budget of the receiver not halved.
ParSpliterSplitKeepBudget(o) ==
    IF o.splits = 0
    THEN [new |-> None, s |-> o]
    ELSE LET r == IterSplit(o.iter)
         IN  IF IsSome(r.new)
             THEN [new |-> Some([iter |-> r.new[1], splits |-> o.splits \div 2]),
                   s |-> [iter |-> r.s, splits |-> o.splits]]
             ELSE [new |-> None, s |-> [o EXCEPT !.iter = r.s]]

\* ParSpliter::split
ParSpliterSplit(o) ==
    IF o.splits = 0
    THEN [new |-> None, s |-> o]
    ELSE LET r == IterSplit(o.iter)
         IN  IF IsSome(r.new)
             THEN [new |-> Some([iter |-> r.new[1], splits |-> o.splits \div 2]),
                   s |-> [iter |-> r.s, splits |-> o.splits \div 2]]
             ELSE [new |-> None, s |-> [o EXCEPT !.iter = r.s]]

\* ------------------------------------------------------------------------
\* Executions of bridge.  An invocation of bridge is named by its path from
\* the top-level call: <<>> is drive_unindexed's call, p \o <<"L">> the first
\* closure of p's join_context and p \o <<"R">> the second.
\* ------------------------------------------------------------------------

VARIABLES
    W,       \* current_num_threads()
    src,     \* the sequence par_split() was called on
    bad,     \* the items the consumer's predicate search looks for
    sp,      \* the ParSpliter objects, by the path of the invocation that created them
    fr,      \* the invocations of bridge: [pc, stolen, folder, item, res, log]
    found,   \* the flag the search's folders share
    migrate, \* the scheduler's reports: "all" tasks migrated, or "some" of them
    it       \* a sequence driven by hand: [cur, whole, kept, given]

vars == << W, src, bad, sp, fr, found, migrate, it >>

\* What no step of an execution changes.
env == << W, src, bad, migrate, it >>

\* The worker counts of the executions.
Workers == {1, 2, 4, 8}

\* The sequences handed to par_split(): the test's AllNumbers with the
\* exponent 2 for its 15, the benchmark's sequences from 1 on 5-bit and 3-bit
\* integers for its u32.
Sources == {AllNumbersNew(2), CollatzNew(1, 5), CollatzBufNew(1, 3)}

\* The items of a sequence.
Items(s) == {Drain(s)[i] : i \in 1..Len(Drain(s))}

\* The predicate searches of the executions, each given by the set of items
\* it looks for: none (a consumer that is never full, as count and sum are),
\* the first, the second or the last item of the sequence.
Searches(s) == {{}} \cup {{Drain(s)[i]} : i \in {1, 2, Len(Drain(s))}}

\* What ctx.migrated() may report to the closure p of a join_context.
Migrated(p) ==
    IF migrate = "all" THEN {TRUE}
    ELSE {b \in BOOLEAN : b => Cardinality({q \in DOMAIN fr : fr[q].stolen}) < MaxSteals}

\* A loop that does not test full.
WhileConditionTrue(flag) == TRUE

\* Line 93: while !folder.full()
WhileCondition(flag) == ~FolderFull(flag)

\* Both closures running on self.
ObjSelf(p) == << >>

\* The ParSpliter an invocation runs on: the left closure runs on self, the
\* right one on the split-off half.
RECURSIVE Obj(_)
Obj(p) ==
    IF p = << >> THEN << >>
    ELSE IF Last(p) = "R" THEN p
    ELSE Obj(Front(p))

\* An invocation that has not started yet.
NewFrame ==
    [pc |-> "start", stolen |-> FALSE, folder |-> NewFolder, item |-> None,
     res |-> None, log |-> << >>]

\* The entry of an invocation's log for a step: what it did, the budget of its
\* ParSpliter when the step began and, for a step that splits or pulls,
\* whether its folder was full then.
Entry(p, op) ==
    [op |-> op,
     full |-> op \in {"full", "fork", "pull", "end", "iter_pull", "iter_end"} /\ found,
     splits |-> sp[Obj(p)].splits]

Logged(p, op) == Append(fr[p].log, Entry(p, op))

Init ==
    /\ W \in Workers
    /\ src \in Sources
    /\ bad \in Searches(src)
    /\ migrate \in {"some", "all"}
    /\ sp = (<< >> :> ParSpliterNew(src, W))
    /\ fr = (<< >> :> NewFrame)
    /\ found = FALSE
    /\ it = [cur |-> src, whole |-> None, kept |-> None, given |-> None]

\* The entry of bridge without the reset of the budget of a stolen job.
EnterNoReset(p) ==
    /\ fr[p].pc = "start"
    /\ \E stolen \in (IF p = << >> THEN {FALSE} ELSE Migrated(p)) :
         /\ sp' = sp
         /\ fr' = [fr EXCEPT ![p].stolen = stolen,
                             ![p].folder = NewFolder,
                             ![p].log = Logged(p, "enter"),
                             ![p].pc = IF sp'[Obj(p)].splits = 0
                                       THEN "consume_iter" ELSE "loop"]
    /\ UNCHANGED << env, found >>

\* The entry of bridge without the test of splits == 0.
EnterNoZeroTest(p) ==
    /\ fr[p].pc = "start"
    /\ \E stolen \in (IF p = << >> THEN {FALSE} ELSE Migrated(p)) :
         /\ sp' = IF stolen THEN [sp EXCEPT ![Obj(p)].splits = W] ELSE sp
         /\ fr' = [fr EXCEPT ![p].stolen = stolen,
                             ![p].folder = NewFolder,
                             ![p].log = Logged(p, "enter"),
                             ![p].pc = "loop"]
    /\ UNCHANGED << env, found >>

\* Lines 83-91: the entry of bridge, up to the test of splits.  The top-level
\* call passes stolen = false; a closure of join_context gets ctx.migrated().
Enter(p) ==
    /\ fr[p].pc = "start"
    /\ \E stolen \in (IF p = << >> THEN {FALSE} ELSE Migrated(p)) :
         /\ sp' = IF stolen THEN [sp EXCEPT ![Obj(p)].splits = W] ELSE sp
         /\ fr' = [fr EXCEPT ![p].stolen = stolen,
                             ![p].folder = NewFolder,
                             ![p].log = Logged(p, "enter"),
                             ![p].pc = IF sp'[Obj(p)].splits = 0
                                       THEN "consume_iter" ELSE "loop"]
    /\ UNCHANGED << env, found >>

\* The loop without its break: it goes on when next() returns None.
LoopNoBreak(p) ==
    /\ fr[p].pc = "loop"
    /\ LET o == Obj(p)
           r == ParSpliterSplit(sp[o])
           n == IterNext(r.s.iter)
       IN  IF ~WhileCondition(found)
           THEN /\ fr' = [fr EXCEPT ![p].pc = "done",
                                    ![p].res = Some(fr[p].folder),
                                    ![p].log = Logged(p, "full")]
                /\ sp' = sp
           ELSE IF IsSome(r.new)
           THEN /\ sp' = [sp EXCEPT ![o] = r.s] @@ ((p \o << "R" >>) :> r.new[1])
                /\ fr' = [fr EXCEPT ![p].pc = "join", ![p].log = Logged(p, "fork")]
                           @@ ((p \o << "L" >>) :> NewFrame)
                           @@ ((p \o << "R" >>) :> NewFrame)
           ELSE IF IsSome(n.item)
           THEN /\ sp' = [sp EXCEPT ![o] = [r.s EXCEPT !.iter = n.s]]
                /\ fr' = [fr EXCEPT ![p].pc = "consume",
                                    ![p].item = n.item,
                                    ![p].log = Logged(p, "pull")]
           ELSE /\ sp' = [sp EXCEPT ![o] = [r.s EXCEPT !.iter = n.s]]
                /\ fr' = fr
    /\ UNCHANGED << env, found >>

\* The loop attempting a split only before the first item is consumed.
LoopSplitFirstOnly(p) ==
    /\ fr[p].pc = "loop"
    /\ LET o == Obj(p)
           r == IF fr[p].folder.count = 0
                THEN ParSpliterSplit(sp[o])
                ELSE [new |-> None, s |-> sp[o]]
           n == IterNext(r.s.iter)
       IN  IF ~WhileCondition(found)
           THEN /\ fr' = [fr EXCEPT ![p].pc = "done",
                                    ![p].res = Some(fr[p].folder),
                                    ![p].log = Logged(p, "full")]
                /\ sp' = sp
           ELSE IF IsSome(r.new)
           THEN /\ sp' = [sp EXCEPT ![o] = r.s] @@ ((p \o << "R" >>) :> r.new[1])
                /\ fr' = [fr EXCEPT ![p].pc = "join", ![p].log = Logged(p, "fork")]
                           @@ ((p \o << "L" >>) :> NewFrame)
                           @@ ((p \o << "R" >>) :> NewFrame)
           ELSE IF IsSome(n.item)
           THEN /\ sp' = [sp EXCEPT ![o] = [r.s EXCEPT !.iter = n.s]]
                /\ fr' = [fr EXCEPT ![p].pc = "consume",
                                    ![p].item = n.item,
                                    ![p].log = Logged(p, "pull")]
           ELSE /\ sp' = [sp EXCEPT ![o] = [r.s EXCEPT !.iter = n.s]]
                /\ fr' = [fr EXCEPT ![p].pc = "done",
                                    ![p].res = Some(fr[p].folder),
                                    ![p].log = Logged(p, "end")]
    /\ UNCHANGED << env, found >>

\* The loop stopping every other running invocation when its folder is full.
LoopCancel(p) ==
    /\ fr[p].pc = "loop"
    /\ LET o == Obj(p)
           r == ParSpliterSplit(sp[o])
           n == IterNext(r.s.iter)
       IN  IF ~WhileCondition(found)
           THEN /\ fr' = [q \in DOMAIN fr |->
                            IF q = p
                            THEN [fr[q] EXCEPT !.pc = "done",
                                               !.res = Some(fr[p].folder),
                                               !.log = Logged(p, "full")]
                            ELSE IF fr[q].pc \in {"loop", "consume", "consume_iter"}
                            THEN [fr[q] EXCEPT !.pc = "done",
                                               !.item = None,
                                               !.res = Some(fr[q].folder)]
                            ELSE fr[q]]
                /\ sp' = sp
           ELSE IF IsSome(r.new)
           THEN /\ sp' = [sp EXCEPT ![o] = r.s] @@ ((p \o << "R" >>) :> r.new[1])
                /\ fr' = [fr EXCEPT ![p].pc = "join", ![p].log = Logged(p, "fork")]
                           @@ ((p \o << "L" >>) :> NewFrame)
                           @@ ((p \o << "R" >>) :> NewFrame)
           ELSE IF IsSome(n.item)
           THEN /\ sp' = [sp EXCEPT ![o] = [r.s EXCEPT !.iter = n.s]]
                /\ fr' = [fr EXCEPT ![p].pc = "consume",
                                    ![p].item = n.item,
                                    ![p].log = Logged(p, "pull")]
           ELSE /\ sp' = [sp EXCEPT ![o] = [r.s EXCEPT !.iter = n.s]]
                /\ fr' = [fr EXCEPT ![p].pc = "done",
                                    ![p].res = Some(fr[p].folder),
                                    ![p].log = Logged(p, "end")]
    /\ UNCHANGED << env, found >>

\* Lines 93-112, one iteration up to the item pulled: the test of full, the
\* attempt to split and, when there is no split, next().
Loop(p) ==
    /\ fr[p].pc = "loop"
    /\ LET o == Obj(p)
           r == ParSpliterSplit(sp[o])
           n == IterNext(r.s.iter)
       IN  IF ~WhileCondition(found)
           THEN /\ fr' = [fr EXCEPT ![p].pc = "done",
                                    ![p].res = Some(fr[p].folder),
                                    ![p].log = Logged(p, "full")]
                /\ sp' = sp
           ELSE IF IsSome(r.new)
           THEN /\ sp' = [sp EXCEPT ![o] = r.s] @@ ((p \o << "R" >>) :> r.new[1])
                /\ fr' = [fr EXCEPT ![p].pc = "join", ![p].log = Logged(p, "fork")]
                           @@ ((p \o << "L" >>) :> NewFrame)
                           @@ ((p \o << "R" >>) :> NewFrame)
           ELSE IF IsSome(n.item)
           THEN /\ sp' = [sp EXCEPT ![o] = [r.s EXCEPT !.iter = n.s]]
                /\ fr' = [fr EXCEPT ![p].pc = "consume",
                                    ![p].item = n.item,
                                    ![p].log = Logged(p, "pull")]
           ELSE /\ sp' = [sp EXCEPT ![o] = [r.s EXCEPT !.iter = n.s]]
                /\ fr' = [fr EXCEPT ![p].pc = "done",
                                    ![p].res = Some(fr[p].folder),
                                    ![p].log = Logged(p, "end")]
    /\ UNCHANGED << env, found >>

\* Line 108: folder = folder.consume(next)
Consume(p) ==
    /\ fr[p].pc = "consume"
    /\ fr' = [fr EXCEPT ![p].pc = "loop",
                        ![p].item = None,
                        ![p].folder = FolderConsume(fr[p].folder, fr[p].item[1], bad),
                        ![p].log = Logged(p, "consume")]
    /\ found' = FoundAfter(found, fr[p].item[1], bad)
    /\ UNCHANGED << env, sp >>

\* Line 90: folder.consume_iter(&mut self.iter).complete(), one iteration of
\* Folder::consume_iter: `for item in iter { self = self.consume(item);
\* if self.full() { break } }`.
ConsumeIter(p) ==
    /\ fr[p].pc = "consume_iter"
    /\ LET o == Obj(p)
           n == IterNext(sp[o].iter)
       IN  /\ sp' = [sp EXCEPT ![o].iter = n.s]
           /\ IF IsSome(n.item)
              THEN LET f == FolderConsume(fr[p].folder, n.item[1], bad)
                   IN  /\ found' = FoundAfter(found, n.item[1], bad)
                       /\ fr' = IF FolderFull(found')
                                THEN [fr EXCEPT ![p].folder = f,
                                                ![p].pc = "done",
                                                ![p].res = Some(f),
                                                ![p].log = Logged(p, "iter_pull")]
                                ELSE [fr EXCEPT ![p].folder = f,
                                                ![p].log = Logged(p, "iter_pull")]
              ELSE /\ found' = found
                   /\ fr' = [fr EXCEPT ![p].pc = "done",
                                       ![p].res = Some(fr[p].folder),
                                       ![p].log = Logged(p, "iter_end")]
    /\ UNCHANGED env

\* The join with the results of the two closures reduced in the other order.
JoinSwapped(p) ==
    /\ fr[p].pc = "join"
    /\ fr[p \o << "L" >>].pc = "done"
    /\ fr[p \o << "R" >>].pc = "done"
    /\ fr' = [fr EXCEPT ![p].pc = "done",
                        ![p].log = Logged(p, "join"),
                        ![p].res = Some(Reduce(fr[p].folder,
                                               Reduce(fr[p \o << "R" >>].res[1],
                                                      fr[p \o << "L" >>].res[1])))]
    /\ UNCHANGED << env, sp, found >>

\* The join returning once the first closure has returned.
JoinLeftOnly(p) ==
    /\ fr[p].pc = "join"
    /\ fr[p \o << "L" >>].pc = "done"
    /\ fr' = [fr EXCEPT ![p].pc = "done",
                        ![p].log = Logged(p, "join"),
                        ![p].res = Some(Reduce(fr[p].folder,
                                               IF fr[p \o << "R" >>].pc = "done"
                                               THEN Reduce(fr[p \o << "L" >>].res[1],
                                                           fr[p \o << "R" >>].res[1])
                                               ELSE fr[p \o << "L" >>].res[1]))]
    /\ UNCHANGED << env, sp, found >>

\* Lines 99-103: join_context returns once both closures have returned, and
\* the results are reduced: r1.reduce(folder.complete(), r2.reduce(left, right)).
Join(p) ==
    /\ fr[p].pc = "join"
    /\ fr[p \o << "L" >>].pc = "done"
    /\ fr[p \o << "R" >>].pc = "done"
    /\ fr' = [fr EXCEPT ![p].pc = "done",
                        ![p].log = Logged(p, "join"),
                        ![p].res = Some(Reduce(fr[p].folder,
                                               Reduce(fr[p \o << "L" >>].res[1],
                                                      fr[p \o << "R" >>].res[1])))]
    /\ UNCHANGED << env, sp, found >>

Next ==
    \/ \E p \in DOMAIN fr : Enter(p)
    \/ \E p \in DOMAIN fr : Loop(p)
    \/ \E p \in DOMAIN fr : Consume(p)
    \/ \E p \in DOMAIN fr : ConsumeIter(p)
    \/ \E p \in DOMAIN fr : Join(p)

Spec == Init /\ [][Next]_vars

\* rayon runs every closure handed to join_context to completion.
FairSpec == Spec /\ WF_vars(Next)

\* ------------------------------------------------------------------------
\* Executions in which the scheduler reports no task as migrated: every
\* closure of a join_context runs with ctx.migrated() = false.  The
\* sequences are those of Sources and an AllNumbers one level deeper than the
\* bound, which discovers more work than a budget of 1 or 2 lets split and
\* is run with up to four workers.
\* ------------------------------------------------------------------------

NoStealSources == Sources \cup {AllNumbersNew(Depth + 1)}

NoStealInit ==
    /\ W \in Workers
    /\ src \in NoStealSources
    /\ src \notin Sources => W <= 4
    /\ bad = {}
    /\ migrate = "some"
    /\ sp = (<< >> :> ParSpliterNew(src, W))
    /\ fr = (<< >> :> NewFrame)
    /\ found = FALSE
    /\ it = [cur |-> src, whole |-> None, kept |-> None, given |-> None]

\* An entry of bridge with stolen = false.
EnterNotStolen(p) == Enter(p) /\ ~fr'[p].stolen

NoStealNext ==
    \/ \E p \in DOMAIN fr : EnterNotStolen(p)
    \/ \E p \in DOMAIN fr : Loop(p)
    \/ \E p \in DOMAIN fr : Consume(p)
    \/ \E p \in DOMAIN fr : ConsumeIter(p)
    \/ \E p \in DOMAIN fr : Join(p)

NoStealSpec == NoStealInit /\ [][NoStealNext]_vars

\* ------------------------------------------------------------------------
\* The sequences on their own: a sequence is driven by calls of next() and
\* split(), going on with either half after a split.  it.whole, it.kept and
\* it.given are the receiver before the last call, when it was a split that
\* returned a half, the receiver after it and the half returned.
\* ------------------------------------------------------------------------

\* The sequences driven: the test's, the benchmark's and the example's, within
\* the bounds.
SeqSource(kind) ==
    CASE kind = "AllNumbers" -> AllNumbersNew(Depth)
      [] kind = "Collatz" -> CollatzNew(1, Bits)
      [] kind = "CollatzBuf" -> CollatzBufNew(1, Bits)
      [] kind = "DepthFirstSearch" -> DepthFirstSearchNew(solved, DepthLimit)

Kinds == {"AllNumbers", "Collatz", "CollatzBuf", "DepthFirstSearch"}

SeqInit ==
    /\ W = 1
    /\ \E kind \in Kinds : src = SeqSource(kind)
    /\ bad = {}
    /\ migrate = "some"
    /\ sp = (<< >> :> ParSpliterNew(src, W))
    /\ fr = (<< >> :> NewFrame)
    /\ found = FALSE
    /\ it = [cur |-> src, whole |-> None, kept |-> None, given |-> None]

\* A call of next() that returns an item.
SeqPull ==
    /\ IsSome(IterNext(it.cur).item)
    /\ it' = [cur |-> IterNext(it.cur).s, whole |-> None, kept |-> None, given |-> None]
    /\ UNCHANGED << W, src, bad, migrate, sp, fr, found >>

\* A call of split() that returns a half; the driver goes on with one of the two.
SeqSplit ==
    /\ LET r == IterSplit(it.cur)
       IN  /\ IsSome(r.new)
           /\ \E c \in {r.s, r.new[1]} :
                it' = [cur |-> c, whole |-> Some(it.cur), kept |-> Some(r.s), given |-> r.new]
    /\ UNCHANGED << W, src, bad, migrate, sp, fr, found >>

\* A call of split() that returns None.
SeqRefuse ==
    /\ LET r == IterSplit(it.cur)
       IN  /\ ~IsSome(r.new)
           /\ it' = [cur |-> r.s, whole |-> Some(it.cur), kept |-> Some(r.s), given |-> None]
    /\ UNCHANGED << W, src, bad, migrate, sp, fr, found >>

SeqNext == SeqPull \/ SeqSplit \/ SeqRefuse

SeqSpec == SeqInit /\ [][SeqNext]_vars

\* drive_unindexed has returned.
Done == fr[<< >>].pc = "done"

\* What drive_unindexed returned.
Result == fr[<< >>].res[1]

\* ------------------------------------------------------------------------
\* Properties
\* ------------------------------------------------------------------------

RECURSIVE SumSeq(_)
SumSeq(s) == IF s = << >> THEN 0 ELSE Head(s) + SumSeq(Tail(s))

Range(s) == {s[i] : i \in 1..Len(s)}

\* The multiset of the elements of a sequence.
BagOf(s) == [x \in Range(s) |-> Cardinality({i \in 1..Len(s) : s[i] = x})]

\* Iterator::all(|x| x \notin b) on the sequence s: next() until an item of b.
RECURSIVE SeqAll(_, _)
SeqAll(s, b) ==
    LET r == IterNext(s)
    IN  IF ~IsSome(r.item) THEN TRUE
        ELSE IF r.item[1] \in b THEN FALSE
        ELSE SeqAll(r.s, b)

\* The invocation p has forked.
Forked(p) == (p \o << "L" >>) \in DOMAIN fr

\* The steps of p's log with the given op.
Steps(p, ops) == {i \in 1..Len(fr[p].log) : fr[p].log[i].op \in ops}

\* p is executing bridge and not waiting at its join_context.
Running(p) == fr[p].pc \in {"start", "loop", "consume", "consume_iter"}

\* C1: count equivalence.  When drive_unindexed has returned for a consumer
\* that is never full, the count it returns is the number of items that
\* next() yields sequentially, whatever the worker count, the migration
\* reports and the interleaving.
CountEquivalence == (Done /\ bad = {}) => Result.count = Len(Drain(src))

CountEquivalenceWitness ==
    /\ Done
    /\ bad = {}
    /\ W = 1
    /\ \E p \in DOMAIN fr : Len(p) = 2 /\ fr[p].stolen
    /\ \E p \in DOMAIN fr : Len(p) = 2 /\ ~fr[p].stolen

\* C2: growing-work termination.  Under fair scheduling every execution
\* reaches the return of the top-level call, also when every task is reported
\* as migrated, and the count returned is the sequential one.
GrowingWorkTerminates == <>(Done /\ (bad = {} => Result.count = Len(Drain(src))))

\* An invocation on a split-off or retained half pulled an item and forked
\* afterwards (its pending work grew past what the split left it), in an
\* execution where every task is reported as migrated.
GrowingWorkWitness ==
    /\ Done
    /\ migrate = "all"
    /\ \E p \in DOMAIN fr :
         /\ p /= << >>
         /\ \E i \in Steps(p, {"pull"}) : \E j \in Steps(p, {"fork"}) : i < j

\* C3: early-exit correctness.  The boolean of all() through par_split()
\* (no item of the search found) is the boolean of the sequential all().
EarlyExitCorrect == Done => ((Result.hit = None) <=> SeqAll(src, bad))

\* The search stopped an invocation on its full folder and the execution
\* did not visit every item.
EarlyExitWitness ==
    /\ Done
    /\ bad /= {}
    /\ Result.hit /= None
    /\ Result.count < Len(Drain(src))
    /\ \E p \in DOMAIN fr : Steps(p, {"full"}) /= {}

\* C4: determinism under unordered aggregation.  The sum returned for a
\* sequence is one value, the sum of its items, in every execution: whatever
\* the worker count, the migration reports, the splits and the interleaving.
SumDeterministic == (Done /\ bad = {}) => Result.sum = SumSeq(Drain(src))

SumDeterministicWitness ==
    /\ Done
    /\ bad = {}
    /\ src.kind = "CollatzBuf"
    /\ W = 4
    /\ Cardinality({p \in DOMAIN fr : Forked(p)}) >= 2
    /\ \E p \in DOMAIN fr : fr[p].stolen

\* C5: multiset equivalence of a single split.  After a split() that returned
\* a half, consuming the receiver and then the half yields the multiset of
\* items that consuming the receiver as it was before the call yields.
SplitConservesItems ==
    IsSome(it.given) =>
        BagOf(Drain(it.kept[1]) \o Drain(it.given[1])) = BagOf(Drain(it.whole[1]))

\* A split of a sequence that has been pulled from, with more than one item still to
\* come from each half.
SplitConservesWitness ==
    /\ IsSome(it.given)
    /\ it.whole[1] /= src
    /\ Len(Drain(it.kept[1])) > 1
    /\ Len(Drain(it.given[1])) > 1

\* C6: the concrete scenario.  AllNumbers with exponent k yields every integer
\* of 1 .. 2^(k+1)-1 exactly once sequentially, and par_split() counts
\* 2^(k+1)-1 items for each of the worker counts 1, 2, 4 and 8.
ConcreteScenario ==
    src.kind = "AllNumbers" =>
        /\ Range(Drain(src)) = 1..(Pow2(src.limit + 1) - 1)
        /\ Len(Drain(src)) = Pow2(src.limit + 1) - 1
        /\ (Done /\ bad = {}) => Result.count = Pow2(src.limit + 1) - 1

ConcreteScenarioWitness ==
    /\ src.kind = "AllNumbers"
    /\ bad = {}
    /\ Done
    /\ W = 8
    /\ Forked(<< "L" >>)
    /\ Forked(<< "R" >>)

\* The items the invocations below p consumed, in the order of the nesting:
\* p's own, then those of the retained half, then those of the split-off half.
RECURSIVE Flat(_)
Flat(p) ==
    fr[p].folder.list
    \o (IF Forked(p) THEN Flat(p \o << "L" >>) \o Flat(p \o << "R" >>) ELSE << >>)

\* C7: fixed combine nesting.  An invocation that forked returns the items it
\* consumed before the split, then the result of the retained half, then the
\* result of the split-off half; so every result lists the items in the order
\* of the nesting.
CombineNesting ==
    \A p \in DOMAIN fr :
        fr[p].pc = "done" =>
            /\ fr[p].res[1].list = Flat(p)
            /\ Forked(p) =>
                 fr[p].res[1].list =
                     fr[p].folder.list \o fr[p \o << "L" >>].res[1].list
                                       \o fr[p \o << "R" >>].res[1].list

\* An invocation that consumed items before it forked has returned, and both
\* halves consumed items.
CombineNestingWitness ==
    \E p \in DOMAIN fr :
        /\ fr[p].pc = "done"
        /\ Forked(p)
        /\ fr[p].folder.list /= << >>
        /\ Len(fr[p \o << "L" >>].res[1].list) >= 2
        /\ Len(fr[p \o << "R" >>].res[1].list) >= 2

Units(o) == sp[o].iter.stack \o sp[o].iter.next

\* C9: exclusive ownership.  No pending unit is held twice, by one ParSpliter
\* or by two; at most one invocation is executing on a ParSpliter; and a step
\* that changes the invocation or the ParSpliter (sequence, budget) of one
\* executing branch changes those of no other.
ExclusiveOwnership ==
    /\ [](/\ \A o \in DOMAIN sp :
               Cardinality(Range(Units(o))) = Len(Units(o))
          /\ \A o1, o2 \in DOMAIN sp :
               o1 /= o2 => Range(Units(o1)) \cap Range(Units(o2)) = {}
          /\ \A o \in DOMAIN sp :
               Cardinality({p \in DOMAIN fr : Obj(p) = o /\ Running(p)}) <= 1)
    /\ [][\A q, r \in DOMAIN fr :
            (/\ q /= r
             /\ Running(q)
             /\ Running(r)
             /\ (fr'[q] /= fr[q] \/ sp'[Obj(q)] /= sp[Obj(q)]))
            => (fr'[r] = fr[r] /\ sp'[Obj(r)] = sp[Obj(r)])]_vars

\* Four branches are executing at once, each holding pending work.
ExclusiveOwnershipWitness ==
    \E S \in SUBSET DOMAIN fr :
        /\ Cardinality(S) = 4
        /\ \A p \in S : Running(p) /\ fr[p].pc /= "start" /\ Units(Obj(p)) /= << >>

\* The budget after step i of p's log: the one the next step began with, or
\* the present one of p's ParSpliter.
BudgetAfter(p, i) ==
    IF i < Len(fr[p].log) THEN fr[p].log[i + 1].splits ELSE sp[Obj(p)].splits

\* The budget an invocation began with.
BudgetGiven(p) ==
    IF fr[p].log = << >> THEN sp[Obj(p)].splits ELSE fr[p].log[1].splits

\* C10: budget halving.  A split made with budget b > 0 gives both halves the
\* budget b \div 2; an iteration in which the split is refused and an item is
\* pulled (or next() returns None), and the consumption of the item, leave
\* the budget as it was.
BudgetHalving ==
    \A p \in DOMAIN fr :
        /\ \A i \in Steps(p, {"fork"}) :
             /\ fr[p].log[i].splits > 0
             /\ BudgetGiven(p \o << "L" >>) = fr[p].log[i].splits \div 2
             /\ BudgetGiven(p \o << "R" >>) = fr[p].log[i].splits \div 2
        /\ \A i \in Steps(p, {"pull", "end", "consume"}) :
             BudgetAfter(p, i) = fr[p].log[i].splits

\* A fork with budget 2 below the top-level call, then one with budget 1
\* after an iteration that pulled an item where the split was refused, both
\* halves of which have begun.
BudgetHalvingWitness ==
    /\ \E i \in Steps(<< >>, {"fork"}) : fr[<< >>].log[i].splits = 2
    /\ \E p \in DOMAIN fr :
         /\ \E i \in Steps(p, {"fork"}) : fr[p].log[i].splits = 1
         /\ Steps(p, {"pull"}) /= {}
         /\ fr[p \o << "L" >>].log /= << >>
         /\ fr[p \o << "R" >>].log /= << >>

\* C11: budget initialisation and reset on relocation.  The top-level call
\* is entered with stolen = false and the budget W; an invocation entered with
\* stolen = true runs with the budget W from its entry on, whatever budget it
\* was given (zero included, and then it runs the loop); one entered with
\* stolen = false runs with the budget it was given; the first step of every
\* invocation is the entry, before any split or next().
BudgetReset ==
    /\ ~fr[<< >>].stolen
    /\ BudgetGiven(<< >>) = W
    /\ \A p \in DOMAIN fr :
         fr[p].log /= << >> =>
             /\ Steps(p, {"enter"}) = {1}
             /\ fr[p].stolen => BudgetAfter(p, 1) = W
             /\ ~fr[p].stolen => BudgetAfter(p, 1) = BudgetGiven(p)
             /\ (fr[p].stolen /\ Len(fr[p].log) = 1) => fr[p].pc = "loop"

\* The two closures of a fork got different reports, both ways: below the
\* top-level call the retained half was reported stolen with a budget of zero
\* and the split-off half was not, and below the retained half it was the
\* other way round.
BudgetResetWitness ==
    /\ W = 1
    /\ Forked(<< "L" >>)
    /\ fr[<< "L" >>].stolen
    /\ BudgetGiven(<< "L" >>) = 0
    /\ fr[<< "R" >>].log /= << >>
    /\ ~fr[<< "R" >>].stolen
    /\ fr[<< "L", "L" >>].log /= << >>
    /\ ~fr[<< "L", "L" >>].stolen
    /\ fr[<< "L", "R" >>].stolen
    /\ BudgetGiven(<< "L", "R" >>) = 0

\* The ops of the steps of p's log, in order.
Ops(p) == [i \in 1..Len(fr[p].log) |-> fr[p].log[i].op]

\* The sequence starts with one unit, so that split() refuses, and its first
\* item pushes two units or more.
GrowsAtFirstPull ==
    /\ ~IsSome(IterSplit(src).new)
    /\ Pending(Buffered(IterNext(IterSplit(src).s).s)) >= 2

\* C12: continuous splitting.  Every iteration of the loop of an invocation
\* whose budget is not zero and whose folder is not full attempts a split
\* before it pulls: it forks when split() sees two pending units or more, and
\* pulls (or ends) only when it sees fewer.  So for a sequence that starts with
\* one unit and whose first item pushes two or more, when the search does not
\* look for that item, the top-level call pulls and consumes exactly one item
\* and forks in its next iteration, and that item is the prior partial
\* result, the first of the combined result.
ContinuousSplitting ==
    /\ [][\A p \in DOMAIN fr :
            (/\ fr[p].pc = "loop"
             /\ fr'[p] /= fr[p]
             /\ ~FolderFull(found)
             /\ sp[Obj(p)].splits > 0)
            => /\ Pending(Buffered(sp[Obj(p)].iter)) >= 2
                    => /\ fr'[p].pc = "join"
                       /\ Last(fr'[p].log).op = "fork"
                       /\ (p \o << "L" >>) \in DOMAIN fr'
               /\ Pending(Buffered(sp[Obj(p)].iter)) < 2
                    => /\ Last(fr'[p].log).op \in {"pull", "end"}
                       /\ (p \o << "L" >>) \notin DOMAIN fr']_vars
    /\ []((GrowsAtFirstPull /\ Drain(src)[1] \notin bad) =>
            /\ Len(fr[<< >>].log) >= 4 =>
                 SubSeq(Ops(<< >>), 1, 4) = << "enter", "pull", "consume", "fork" >>
            /\ Forked(<< >>) => fr[<< >>].folder.list = << Drain(src)[1] >>
            /\ Done => /\ Forked(<< >>)
                       /\ Result.list[1] = Drain(src)[1])

\* The top-level call on AllNumbers consumed 1 and forked, and so did the
\* invocation on its retained half after it consumed 2; both have returned.
ContinuousSplittingWitness ==
    /\ Done
    /\ GrowsAtFirstPull
    /\ Drain(src)[1] \notin bad
    /\ fr[<< >>].folder.list = << 1 >>
    /\ Forked(<< "L" >>)
    /\ Ops(<< "L" >>) = << "enter", "pull", "consume", "fork", "join" >>
    /\ fr[<< "L" >>].folder.list = << 2 >>

\* p was entered with a budget of zero and stolen = false.
ZeroBudget(p) == fr[p].log /= << >> /\ ~fr[p].stolen /\ BudgetGiven(p) = 0

\* C13: zero budget means direct consumption.  An invocation entered with a
\* budget of zero and stolen = false never attempts a split and never forks:
\* after its entry it only runs consume_iter.  Every step of it moves the
\* first item its sequence yields to the end of its folder, so that it folds
\* the items of its own sequence in the sequence's order, those pushed while
\* it consumes included; it goes on until next() returns None or the folder is
\* full after an item, and returns its folder.
ZeroBudgetDirect ==
    /\ [](\A p \in DOMAIN fr :
            ZeroBudget(p) =>
                /\ \A i \in 2..Len(fr[p].log) :
                     /\ fr[p].log[i].op \in {"iter_pull", "iter_end"}
                     /\ fr[p].log[i].splits = 0
                /\ ~Forked(p)
                /\ fr[p].pc \in {"consume_iter", "done"}
                /\ fr[p].folder.count = Cardinality(Steps(p, {"iter_pull"}))
                /\ fr[p].pc = "done" =>
                     /\ fr[p].res = Some(fr[p].folder)
                     /\ Last(fr[p].log).op = "iter_end" =>
                          Drain(sp[Obj(p)].iter) = << >>
                     /\ Last(fr[p].log).op = "iter_pull" => FolderFull(found))
    /\ [][\A p \in DOMAIN fr :
            (ZeroBudget(p) /\ fr'[p] /= fr[p]) =>
                fr'[p].folder.list \o Drain(sp'[Obj(p)].iter)
                  = fr[p].folder.list \o Drain(sp[Obj(p)].iter)]_vars

\* An invocation without a budget consumed three items or more, up to the
\* end of its sequence, and returned; another returned on a full folder.
ZeroBudgetDirectWitness ==
    /\ \E p \in DOMAIN fr :
         /\ ZeroBudget(p)
         /\ fr[p].pc = "done"
         /\ Last(fr[p].log).op = "iter_end"
         /\ Len(fr[p].folder.list) >= 3
    /\ \E p \in DOMAIN fr :
         /\ ZeroBudget(p)
         /\ fr[p].pc = "done"
         /\ Last(fr[p].log).op = "iter_pull"
         /\ Drain(sp[Obj(p)].iter) /= << >>

\* C14: join ordering.  An invocation that forked waits at its join_context
\* and returns only once both the retained and the split-off half have
\* returned; the fork is its last step but the join: after it the invocation
\* pulls no item and attempts no split, and its folder stays what it was at
\* the fork.  It has no result while a half is still running, and its result
\* is its folder combined with the results of the two halves.
JoinOrdering ==
    /\ [](\A p \in DOMAIN fr :
            Forked(p) =>
                LET l == p \o << "L" >>
                    r == p \o << "R" >>
                    n == Len(fr[p].log)
                IN  /\ fr[p].pc \in {"join", "done"}
                    /\ Cardinality(Steps(p, {"fork"})) = 1
                    /\ \A i \in Steps(p, {"fork"}) :
                         /\ i \in {n - 1, n}
                         /\ i = n - 1 => fr[p].log[n].op = "join"
                    /\ fr[p].folder.count = Cardinality(Steps(p, {"consume"}))
                    /\ fr[p].item = None
                    /\ fr[p].pc = "join" =>
                         /\ fr[p].res = None
                         /\ Steps(p, {"join"}) = {}
                    /\ fr[p].pc = "done" =>
                         /\ fr[l].pc = "done"
                         /\ fr[r].pc = "done"
                         /\ Steps(p, {"join"}) = {n}
                         /\ fr[p].res =
                              Some(Reduce(fr[p].folder,
                                          Reduce(fr[l].res[1], fr[r].res[1]))))
    /\ [][\A p \in DOMAIN fr :
            (fr[p].pc = "join" /\ fr'[p] /= fr[p]) =>
                /\ fr[p \o << "L" >>].pc = "done"
                /\ fr[p \o << "R" >>].pc = "done"
                /\ fr'[p].pc = "done"
                /\ fr'[p].folder = fr[p].folder
                /\ sp' = sp]_vars

\* An invocation that consumed an item and forked has returned, while the
\* invocation that forked it waits for its other half, which has not begun.
JoinOrderingWitness ==
    \E p \in DOMAIN fr :
        /\ Forked(p \o << "L" >>)
        /\ fr[p \o << "L" >>].pc = "done"
        /\ fr[p \o << "L" >>].folder.list /= << >>
        /\ fr[p].pc = "join"
        /\ fr[p \o << "R" >>].pc = "start"

\* C15: honest split refusal.  For each of the four sequences, a call of
\* split() on a sequence with fewer than two pending units (the entries of the
\* stack and, for CollatzBuf, the item buffered by the look-ahead of the call)
\* returns None and leaves the items to come as they were; when split()
\* returns a half, the sequence had two units or more, and the receiver and
\* the half each hold a pending unit and each yield an item.
HonestRefusal ==
    IsSome(it.whole) =>
        /\ Pending(Buffered(it.whole[1])) < 2 =>
             /\ it.given = None
             /\ Drain(it.kept[1]) = Drain(it.whole[1])
        /\ IsSome(it.given) =>
             /\ Pending(Buffered(it.whole[1])) >= 2
             /\ Pending(it.kept[1]) >= 1
             /\ Pending(it.given[1]) >= 1
             /\ Drain(it.kept[1]) /= << >>
             /\ Drain(it.given[1]) /= << >>

\* A split of a CollatzBuf with one entry on its stack and one item buffered:
\* the receiver keeps the buffered item alone, the half gets the entry.
HonestRefusalWitness ==
    /\ IsSome(it.given)
    /\ it.whole[1].kind = "CollatzBuf"
    /\ it.whole[1] /= src
    /\ Pending(Buffered(it.whole[1])) = 2
    /\ it.kept[1].stack = << >>
    /\ IsSome(it.kept[1].next)
    /\ Len(it.given[1].stack) = 1

\* C16: order-preserving depth-first split.  A try_split of a
\* DepthFirstSearch with a stack of len >= 2 entries gives away the bottom
\* len \div 2 entries and keeps the top len - len \div 2; consuming the receiver to
\* its end and then the half given away yields the items of the traversal as
\* it was before the call, in the same order.
DepthFirstOrder ==
    (IsSome(it.whole) /\ it.whole[1].kind = "DepthFirstSearch") =>
        LET stack == it.whole[1].stack
            len == Len(stack)
        IN  /\ IsSome(it.given) <=> len >= 2
            /\ IsSome(it.given) =>
                 /\ it.given[1].stack = SubSeq(stack, 1, len \div 2)
                 /\ it.kept[1].stack = SubSeq(stack, len \div 2 + 1, len)
                 /\ Len(it.kept[1].stack) = len - len \div 2
                 /\ Drain(it.kept[1]) \o Drain(it.given[1]) = Drain(it.whole[1])

\* A split of a traversal that has been pulled from, on a stack of an odd
\* length of five or more, both halves of which yield several items.
DepthFirstOrderWitness ==
    /\ IsSome(it.given)
    /\ it.whole[1].kind = "DepthFirstSearch"
    /\ it.whole[1] /= src
    /\ Len(it.whole[1].stack) >= 5
    /\ Len(it.whole[1].stack) % 2 = 1
    /\ Len(Drain(it.kept[1])) > Len(it.kept[1].stack)
    /\ Len(Drain(it.given[1])) > Len(it.given[1].stack)

RECURSIVE FloorLog2(_)
FloorLog2(n) == IF n <= 1 THEN 0 ELSE 1 + FloorLog2(n \div 2)

\* 2^(floor(log2 w) + 1) - 1
FanOutBound(w) == Pow2(FloorLog2(w) + 1) - 1

\* The invocations that forked.
Forks == {p \in DOMAIN fr : Forked(p)}

\* C17: bounded fan-out without relocation.  As long as no invocation was
\* entered with stolen = true, the budget of every ParSpliter is between 0 and
\* W, and the number of forks made is at most 2^(floor(log2 W) + 1) - 1: 1 for
\* one worker, 3 for two, 7 for four, 15 for eight, also when the sequence
\* holds more work than that.
BoundedFanOut ==
    (\A p \in DOMAIN fr : ~fr[p].stolen) =>
        /\ \A o \in DOMAIN sp : sp[o].splits \in 0..W
        /\ Cardinality(Forks) <= FanOutBound(W)
        /\ FanOutBound(W) = CASE W = 1 -> 1 [] W = 2 -> 3 [] W = 4 -> 7 [] W = 8 -> 15

\* With two workers the three forks of the bound were made and the execution
\* has returned; the invocations without a budget consumed, without
\* splitting, items whose successors they discovered.
BoundedFanOutWitness ==
    /\ Done
    /\ W = 2
    /\ \A p \in DOMAIN fr : ~fr[p].stolen
    /\ Cardinality(Forks) = FanOutBound(W)
    /\ \E p \in DOMAIN fr : ZeroBudget(p) /\ Len(fr[p].folder.list) >= 3
    /\ Len(Drain(src)) > 2 * FanOutBound(W) + 1

\* The last step p took is one in which it found its folder full and returned:
\* the test of the loop, or the test consume_iter makes after an item.
StoppedOnFull(p) ==
    /\ fr[p].pc = "done"
    /\ Last(fr[p].log).op \in {"full", "iter_pull"}

\* C18: no active cancellation of siblings.  The step in which an invocation
\* finds its own folder full and returns changes no other invocation and no
\* ParSpliter but its own: the test of the loop leaves its own sequence and
\* budget as they are, pending units included, and returns its folder; the
\* test consume_iter makes comes after the one item of that step.  The
\* sequences, budgets and folders of the other branches are unchanged, and
\* a branch returns only by a step of its own: at the end of its sequence, at
\* a fullness test of its own, or at its join.
NoCancellation ==
    /\ [][\A p \in DOMAIN fr :
            (fr[p].pc /= "done" /\ StoppedOnFull(p)') =>
                /\ DOMAIN fr' = DOMAIN fr
                /\ DOMAIN sp' = DOMAIN sp
                /\ \A q \in DOMAIN fr : q /= p => fr'[q] = fr[q]
                /\ \A o \in DOMAIN sp : o /= Obj(p) => sp'[o] = sp[o]
                /\ sp'[Obj(p)].splits = sp[Obj(p)].splits
                /\ Last(fr'[p].log).op = "full" =>
                     /\ sp' = sp
                     /\ found' = found
                     /\ fr'[p].res = Some(fr[p].folder)
                /\ Last(fr'[p].log).op = "iter_pull" =>
                     Len(Drain(sp'[Obj(p)].iter)) = Len(Drain(sp[Obj(p)].iter)) - 1]_vars
    /\ [][\A q \in DOMAIN fr :
            fr'[q] /= fr[q] =>
                /\ Len(fr'[q].log) = Len(fr[q].log) + 1
                /\ \A r \in DOMAIN fr : r /= q => fr'[r] = fr[r]]_vars
    /\ [](\A q \in DOMAIN fr :
            fr[q].pc = "done" =>
                /\ Last(fr[q].log).op \in {"full", "end", "iter_pull", "iter_end", "join"}
                /\ StoppedOnFull(q) => FolderFull(found)
                /\ Last(fr[q].log).op \in {"end", "iter_end"} =>
                     Drain(sp[Obj(q)].iter) = << >>)

\* An invocation found its folder full at the test of its loop and returned
\* with units pending; a branch forked before went on afterwards and pulled
\* an item, and another has not pulled yet and is still running.
NoCancellationWitness ==
    \E p, q, r \in DOMAIN fr :
        /\ p /= << >>
        /\ Last(p) = "R"
        /\ fr[p].pc = "done"
        /\ fr[p].log /= << >>
        /\ Last(fr[p].log).op = "full"
        /\ Len(Units(p)) >= 2
        /\ q /= p
        /\ \E i \in Steps(q, {"iter_pull"}) : fr[q].log[i].full
        /\ r \notin {p, q}
        /\ fr[r].pc = "consume_iter"
        /\ Units(Obj(r)) /= << >>

====
